---- MODULE Spec2Model ----
(***************************************************************************)
(* Camelot: application actions (Backup, Refresh, Profiler), the action    *)
(* step protocol between the model and the GUI, the form layout tree and   *)
(* the attribute prospection registry.                                      *)
(***************************************************************************)
EXTENDS Integers, Sequences, FiniteSets, TLC

VARIABLES
    \* ---- Refresh.model_run (application_action.py 175-210)
    identity_map,       \* session.identity_map: the objects of the session, in dict order
    rpc,                \* position of the Refresh generator
    session_items,      \* len(session.identity_map) taken at line 189
    items,              \* the list session.identity_map.items() iterated at line 190
    i,                  \* the enumerate index of the loop at line 190
    refreshed_objects,
    expunged_objects,
    outcome,            \* per object: what session.refresh did in this run
    escaped,            \* the exception that left the generator, "none" if none
    steps               \* the action steps the generator has yielded, in order

varsRefresh == <<identity_map, rpc, session_items, items, i, refreshed_objects,
                 expunged_objects, outcome, escaped, steps>>

VARIABLES
    \* ---- the action runner: a generator on the model side, steps run on the GUI side
    action,             \* the action whose model_run is running, "none" if none
    pc,                 \* position of its generator: the line of the yield it waits at
    runner,             \* whose turn it is: "idle", "model", "poll", "dispatch", "gui"
    pending,            \* the step the generator yielded last
    yielded,            \* all steps yielded in this run, in order
    dispatched,         \* all steps handed to the GUI in this run, in order
    delivered,          \* the GUI results sent back into the generator, in order
    cancel_requested,   \* the external cancellation signal
    cancel_observed,    \* the runner has seen the signal
    polls,              \* how often the runner polled the signal in this run
    \* ---- Backup.model_run (application_action.py 153-162)
    destination,
    backup_mechanism,
    backup_tuples,      \* what the backup iterator produces, in order
    backup_iterator,    \* what it has not produced yet
    \* ---- Profiler (application_action.py 246-269)
    model_profile,      \* self.model_profile: "None" or "Profile"
    profile_enabled,    \* the cProfile.Profile is collecting
    profiles_written,   \* calls of StopProfiler.write_profile
    profiler_log        \* per invocation: "start" or "stop", the branch of line 260 it
                        \* completed, or "cancelled"

varsRunner == <<action, pc, runner, pending, yielded, dispatched, delivered,
                cancel_requested, cancel_observed, polls>>
varsBackup == <<destination, backup_mechanism, backup_tuples, backup_iterator>>
varsProfiler == <<model_profile, profile_enabled, profiles_written, profiler_log>>
varsAction == <<varsRunner, varsBackup, varsProfiler>>

VARIABLES
    \* ---- the form tree (forms.py)
    form,               \* the form the program holds
    call                \* the last method called on it: arguments, form before, result

varsForms == <<form, call>>

VARIABLES
    \* ---- attribute prospection (prospection.py)
    info,               \* per column: column.info, as far as 'prospection' goes
    registrations,      \* how many prospections were registered
    last                \* the last call: its arguments and what came of it

varsProspection == <<info, registrations, last>>

VARIABLES
    \* ---- structure_to_application_action (application_action.py 305-315)
    conversions,        \* the calls made so far: the structure, what came of it
    allocated           \* how many action objects were constructed so far

varsStructure == <<conversions, allocated>>

vars == <<varsRefresh, varsAction, varsForms, varsProspection, varsStructure>>

\* what the actions of one part of the program leave alone
notRefresh == <<varsAction, varsForms, varsProspection, varsStructure>>
notAction == <<varsRefresh, varsForms, varsProspection, varsStructure>>
notForms == <<varsRefresh, varsAction, varsProspection, varsStructure>>
notProspection == <<varsRefresh, varsAction, varsForms, varsStructure>>
notStructure == <<varsRefresh, varsAction, varsForms, varsProspection>>

\* ------------------------------------------------------------------ bounds
MaxObjects == 11
MaxTuples == 2
MaxInvocations == 3
MaxContent == 2
MaxRegistrations == 2
MaxConversions == 3
MaxTabs == 3

\* ------------------------------------------------------------ shared helpers
Range(s) == {s[k] : k \in 1..Len(s)}

RECURSIVE Without(_, _)
\* a sequence without the elements equal to x
Without(s, x) ==
    IF s = <<>> THEN <<>>
    ELSE IF Head(s) = x THEN Without(Tail(s), x)
    ELSE <<Head(s)>> \o Without(Tail(s), x)

\* An action step: the class name and its constructor arguments.
ActionStep(name, value, maximum, text, objects) ==
    [name |-> name, value |-> value, maximum |-> maximum, text |-> text,
     objects |-> objects]

NoValue == -1

UpdateProgress(value, maximum, text) == ActionStep("UpdateProgress", value, maximum, text, <<>>)
UpdateObjects(objects) == ActionStep("UpdateObjects", NoValue, NoValue, "", objects)
\* a faulty step that reports the expunged objects as updated
DeleteObjectsAsUpdated(objects) == ActionStep("UpdateObjects", NoValue, NoValue, "", objects)
DeleteObjects(objects) == ActionStep("DeleteObjects", NoValue, NoValue, "", objects)
RefreshStep == ActionStep("Refresh", NoValue, NoValue, "", <<>>)

\* ------------------------------------------------------------------ Refresh
Objects == 1..MaxObjects

\* the identity maps a session can hold when Refresh runs: the code never
\* looks into an object, so a session of n objects holds the objects 1..n
Sessions == {[k \in 1..n |-> k] : n \in 0..MaxObjects}

progress_db_message == "Reload data from database"
progress_view_message == "Update screens"
ProgressInterval == 10

\* session.expunge(obj): the object leaves the identity map
Expunge(map, obj) == Without(map, obj)

\* a faulty loop body without the except clause: the error leaves the action
RefreshObjectNoExcept(obj, ok, map, refreshed, expunged) ==
    IF ok
    THEN [map |-> map, refreshed |-> Append(refreshed, obj), expunged |-> expunged,
          escaped |-> "none"]
    ELSE [map |-> map, refreshed |-> refreshed, expunged |-> expunged,
          escaped |-> "InvalidRequestError"]

\* lines 191-201: the try/except of one loop iteration. ok: session.refresh
\* returned; otherwise it raised InvalidRequestError.
RefreshObject(obj, ok, map, refreshed, expunged) ==
    IF ok
    THEN [map |-> map, refreshed |-> Append(refreshed, obj), expunged |-> expunged,
          escaped |-> "none"]
    ELSE [map |-> Expunge(map, obj), refreshed |-> refreshed,
          expunged |-> Append(expunged, obj), escaped |-> "none"]

\* no generator of Refresh exists yet
RefreshAtRest ==
    /\ rpc = "idle"
    /\ session_items = 0
    /\ items = <<>>
    /\ i = 0
    /\ refreshed_objects = <<>>
    /\ expunged_objects = <<>>
    /\ outcome = [o \in Objects |-> "none"]
    /\ escaped = "none"
    /\ steps = <<>>

\* model_run is called and the generator runs up to the loop (lines 179-190).
\* A later run meets the session an earlier run left behind, which is one of
\* Sessions up to the names of the objects, so one run per behaviour is followed.
RefreshStart ==
    /\ rpc = "idle"
    /\ rpc' = "loop"
    /\ session_items' = Len(identity_map)
    /\ items' = identity_map
    /\ i' = 0
    /\ refreshed_objects' = <<>>
    /\ expunged_objects' = <<>>
    /\ outcome' = [o \in Objects |-> "none"]
    /\ escaped' = "none"
    /\ steps' = <<>>
    /\ UNCHANGED identity_map
    /\ UNCHANGED notRefresh

\* one iteration of the loop of lines 190-205
RefreshIterate ==
    /\ rpc = "loop"
    /\ i < Len(items)
    /\ \E ok \in BOOLEAN :
        LET obj == items[i + 1]
            r == RefreshObject(obj, ok, identity_map, refreshed_objects, expunged_objects)
        IN /\ identity_map' = r.map
           /\ refreshed_objects' = r.refreshed
           /\ expunged_objects' = r.expunged
           /\ escaped' = r.escaped
           /\ outcome' = [outcome EXCEPT ![obj] = IF ok THEN "refreshed" ELSE "InvalidRequestError"]
           /\ IF r.escaped # "none"
              THEN /\ rpc' = "raised"
                   /\ UNCHANGED <<i, steps>>
              ELSE /\ IF i % ProgressInterval = 0
                      THEN steps' = Append(steps, UpdateProgress(i + 1, session_items, progress_db_message))
                      ELSE UNCHANGED steps
                   /\ i' = i + 1
                   /\ rpc' = "loop"
    /\ UNCHANGED <<session_items, items>>
    /\ UNCHANGED notRefresh

\* lines 206-210: the loop is over, the five closing steps are yielded one by one
RefreshYieldView ==
    /\ rpc = "loop"
    /\ i = Len(items)
    /\ steps' = Append(steps, UpdateProgress(NoValue, NoValue, progress_view_message))
    /\ rpc' = "L206"
    /\ UNCHANGED <<identity_map, session_items, items, i, refreshed_objects,
                   expunged_objects, outcome, escaped>>
    /\ UNCHANGED notRefresh

RefreshYieldUpdate ==
    /\ rpc = "L206"
    /\ steps' = Append(steps, UpdateObjects(refreshed_objects))
    /\ rpc' = "L207"
    /\ UNCHANGED <<identity_map, session_items, items, i, refreshed_objects,
                   expunged_objects, outcome, escaped>>
    /\ UNCHANGED notRefresh

RefreshYieldDelete ==
    /\ rpc = "L207"
    /\ steps' = Append(steps, DeleteObjects(expunged_objects))
    /\ rpc' = "L208"
    /\ UNCHANGED <<identity_map, session_items, items, i, refreshed_objects,
                   expunged_objects, outcome, escaped>>
    /\ UNCHANGED notRefresh

RefreshYieldRefresh ==
    /\ rpc = "L208"
    /\ steps' = Append(steps, RefreshStep)
    /\ rpc' = "L209"
    /\ UNCHANGED <<identity_map, session_items, items, i, refreshed_objects,
                   expunged_objects, outcome, escaped>>
    /\ UNCHANGED notRefresh

RefreshYieldFinal ==
    /\ rpc = "L209"
    /\ steps' = Append(steps, UpdateProgress(1, 1, ""))
    /\ rpc' = "L210"
    /\ UNCHANGED <<identity_map, session_items, items, i, refreshed_objects,
                   expunged_objects, outcome, escaped>>
    /\ UNCHANGED notRefresh

\* the generator is resumed after its last yield and returns
RefreshReturn ==
    /\ rpc = "L210"
    /\ rpc' = "done"
    /\ UNCHANGED <<identity_map, session_items, items, i, refreshed_objects,
                   expunged_objects, outcome, escaped, steps>>
    /\ UNCHANGED notRefresh

\* --------------------------------------------------------- the action runner
NoStep == ActionStep("None", NoValue, NoValue, "", <<>>)
SaveFile == ActionStep("SaveFile", NoValue, NoValue, "", <<>>)
MessageBox(text) == ActionStep("MessageBox", NoValue, NoValue, text, <<>>)
StartProfiler == ActionStep("StartProfiler", NoValue, NoValue, "", <<>>)
StopProfiler == ActionStep("StopProfiler", NoValue, NoValue, "", <<>>)

Actions == {"Backup", "Profiler"}
Destinations == {"a.db", "b.db"}

\* what gui_run of a step gives back to the generator
GuiResults(step) == IF step.name = "SaveFile" THEN Destinations ELSE {"None"}

\* the generator yields a step and waits: the runner takes over
Yield(step, at) ==
    /\ pending' = step
    /\ yielded' = Append(yielded, step)
    /\ pc' = at
    /\ runner' = "poll"
    /\ UNCHANGED <<action, dispatched, delivered, cancel_requested, cancel_observed, polls>>

\* the generator returns (StopIteration): the run is over
Return ==
    /\ pc' = "done"
    /\ runner' = "idle"
    /\ UNCHANGED <<action, pending, yielded, dispatched, delivered, cancel_requested,
                   cancel_observed, polls>>

\* the value of the yield expression the generator is resumed with
Sent == IF delivered = <<>> THEN "None" ELSE delivered[Len(delivered)]

RunnerAtRest ==
    /\ action = "none"
    /\ pc = "none"
    /\ runner = "idle"
    /\ pending = NoStep
    /\ yielded = <<>>
    /\ dispatched = <<>>
    /\ delivered = <<>>
    /\ cancel_requested = FALSE
    /\ cancel_observed = FALSE
    /\ polls = 0

\* the runner reads the cancellation signal
PollCancel(requested) == requested

\* a runner with no memory of the cancellation
MayDispatchAlways(observed) == TRUE

\* a step goes to the GUI only while no cancellation was observed
MayDispatch(observed) == ~observed

\* the local variables of Backup.model_run before the generator runs
BackupAtRest ==
    /\ destination = "None"
    /\ backup_mechanism = [created |-> FALSE, destination |-> "None"]
    /\ backup_tuples = <<>>
    /\ backup_iterator = <<>>

\* an action is triggered: its model_run is called and the model side starts
StartAction(a) ==
    /\ runner = "idle"
    /\ a = "Profiler" => Len(profiler_log) < MaxInvocations
    /\ action' = a
    /\ pc' = "start"
    /\ runner' = "model"
    /\ pending' = NoStep
    /\ yielded' = <<>>
    /\ dispatched' = <<>>
    /\ delivered' = <<>>
    /\ cancel_requested' = FALSE
    /\ cancel_observed' = FALSE
    /\ polls' = 0
    /\ destination' = "None"
    /\ backup_mechanism' = [created |-> FALSE, destination |-> "None"]
    /\ backup_tuples' = <<>>
    /\ backup_iterator' = <<>>
    /\ UNCHANGED varsProfiler
    /\ UNCHANGED notAction

\* the user (or the application) asks to cancel the running action
RequestCancel ==
    /\ runner # "idle"
    /\ ~cancel_requested
    /\ cancel_requested' = TRUE
    /\ UNCHANGED <<action, pc, runner, pending, yielded, dispatched, delivered,
                   cancel_observed, polls>>
    /\ UNCHANGED <<varsBackup, varsProfiler>>
    /\ UNCHANGED notAction

\* between two steps the runner polls the cancellation signal
Poll ==
    /\ runner = "poll"
    /\ polls' = polls + 1
    /\ cancel_observed' = PollCancel(cancel_requested)
    /\ runner' = "dispatch"
    /\ UNCHANGED <<action, pc, pending, yielded, dispatched, delivered, cancel_requested>>
    /\ UNCHANGED <<varsBackup, varsProfiler>>
    /\ UNCHANGED notAction

\* the pending step is handed to the GUI; after a cancellation it is dropped
\* and the generator is closed
Dispatch ==
    /\ runner = "dispatch"
    /\ IF MayDispatch(cancel_observed)
       THEN /\ dispatched' = Append(dispatched, pending)
            /\ runner' = "gui"
            /\ UNCHANGED <<pc, profiler_log>>
       ELSE /\ runner' = "idle"
            /\ pc' = "closed"
            /\ profiler_log' = IF action = "Profiler"
                                THEN Append(profiler_log, "cancelled")
                                ELSE profiler_log
            /\ UNCHANGED dispatched
    /\ UNCHANGED <<action, pending, yielded, delivered, cancel_requested,
                   cancel_observed, polls>>
    /\ UNCHANGED <<varsBackup, model_profile, profile_enabled, profiles_written>>
    /\ UNCHANGED notAction

\* the GUI has run the step; its result is sent into the generator
Deliver ==
    /\ runner = "gui"
    /\ \E result \in GuiResults(pending) : delivered' = Append(delivered, result)
    /\ runner' = "model"
    /\ UNCHANGED <<action, pc, pending, yielded, dispatched, cancel_requested,
                   cancel_observed, polls>>
    /\ UNCHANGED <<varsBackup, varsProfiler>>
    /\ UNCHANGED notAction

\* ------------------------------------------------------------------- Backup
Descriptions == {"tables", "rows"}

\* the (completed, total, description) tuples a backup can report
BackupTuples == {<<c, MaxTuples, d>> : c \in 1..MaxTuples, d \in Descriptions}

RECURSIVE SeqsUpTo(_, _)
\* the sequences over S of length at most n
SeqsUpTo(S, n) ==
    IF n = 0 THEN {<<>>}
    ELSE LET shorter == SeqsUpTo(S, n - 1)
         IN shorter \cup {Append(s, x) : s \in shorter, x \in S}

\* a faulty progress step with completed and total exchanged
BackupProgressSwapped(t) == UpdateProgress(t[2], t[1], t[3])

\* lines 160-162: the progress step of one tuple of the backup iterator
BackupProgress(t) == UpdateProgress(t[1], t[2], t[3])

\* line 155: the first step asks for the file to save to
BackupYieldSaveFile ==
    /\ action = "Backup" /\ runner = "model" /\ pc = "start"
    /\ Yield(SaveFile, "L155")
    /\ UNCHANGED varsBackup
    /\ UNCHANGED varsProfiler
    /\ UNCHANGED notAction

\* lines 155-156: the result of SaveFile becomes the destination
BackupYieldInProgress ==
    /\ action = "Backup" /\ runner = "model" /\ pc = "L155"
    /\ destination' = Sent
    /\ Yield(UpdateProgress(NoValue, NoValue, "Backup in progress"), "L156")
    /\ UNCHANGED <<backup_mechanism, backup_tuples, backup_iterator>>
    /\ UNCHANGED varsProfiler
    /\ UNCHANGED notAction

\* lines 157-160: the mechanism and its iterator are made, the loop starts
BackupCreate ==
    /\ action = "Backup" /\ runner = "model" /\ pc = "L156"
    /\ backup_mechanism' = [created |-> TRUE, destination |-> destination]
    /\ \E tuples \in SeqsUpTo(BackupTuples, MaxTuples) :
         /\ backup_tuples' = tuples
         /\ IF tuples = <<>>
            THEN /\ Return
                 /\ backup_iterator' = <<>>
            ELSE /\ Yield(BackupProgress(Head(tuples)), "L160")
                 /\ backup_iterator' = Tail(tuples)
    /\ UNCHANGED destination
    /\ UNCHANGED varsProfiler
    /\ UNCHANGED notAction

\* lines 159-162: the next tuple of the iterator, or the end of the loop
BackupNext ==
    /\ action = "Backup" /\ runner = "model" /\ pc = "L160"
    /\ IF backup_iterator = <<>>
       THEN /\ Return
            /\ UNCHANGED backup_iterator
       ELSE /\ Yield(BackupProgress(Head(backup_iterator)), "L160")
            /\ backup_iterator' = Tail(backup_iterator)
    /\ UNCHANGED <<destination, backup_mechanism, backup_tuples>>
    /\ UNCHANGED varsProfiler
    /\ UNCHANGED notAction

\* ----------------------------------------------------------------- Profiler
\* the state of a Profiler instance after __init__ (lines 254-256)
ProfilerAtRest ==
    /\ model_profile = "None"
    /\ profile_enabled = FALSE
    /\ profiles_written = 0
    /\ profiler_log = <<>>

\* line 260: the branch an invocation takes
ProfilerStarts(profile) == profile = "None"

\* lines 260-261 and 265-266: the first step of an invocation
ProfilerFirstStep ==
    /\ action = "Profiler" /\ runner = "model" /\ pc = "start"
    /\ IF ProfilerStarts(model_profile)
       THEN Yield(MessageBox("Start profiler"), "L261")
       ELSE Yield(StopProfiler, "L266")
    /\ UNCHANGED varsProfiler
    /\ UNCHANGED varsBackup
    /\ UNCHANGED notAction

\* line 262
ProfilerYieldStart ==
    /\ action = "Profiler" /\ runner = "model" /\ pc = "L261"
    /\ Yield(StartProfiler, "L262")
    /\ UNCHANGED varsProfiler
    /\ UNCHANGED varsBackup
    /\ UNCHANGED notAction

\* lines 263-264: the profile is made and enabled, model_run returns
ProfilerEnable ==
    /\ action = "Profiler" /\ runner = "model" /\ pc = "L262"
    /\ model_profile' = "Profile"
    /\ profile_enabled' = TRUE
    /\ profiler_log' = Append(profiler_log, "start")
    /\ Return
    /\ UNCHANGED profiles_written
    /\ UNCHANGED varsBackup
    /\ UNCHANGED notAction

\* lines 267-269: the profile is disabled and written; self.model_profile stays
ProfilerDisable ==
    /\ action = "Profiler" /\ runner = "model" /\ pc = "L266"
    /\ profile_enabled' = FALSE
    /\ profiles_written' = profiles_written + 1
    /\ Yield(MessageBox("Profiler stopped"), "L269")
    /\ UNCHANGED <<model_profile, profiler_log>>
    /\ UNCHANGED varsBackup
    /\ UNCHANGED notAction

\* model_run returns after the yield of line 269
ProfilerReturn ==
    /\ action = "Profiler" /\ runner = "model" /\ pc = "L269"
    /\ profiler_log' = Append(profiler_log, "stop")
    /\ Return
    /\ UNCHANGED <<model_profile, profile_enabled, profiles_written>>
    /\ UNCHANGED varsBackup
    /\ UNCHANGED notAction

\* -------------------------------------------------------------------- forms
\* A node of a form tree. A field name, the None placeholder, a form, a tab
\* (label, form) of a TabForm and a row of a GridForm are all written as
\* [kind, name, content].
Node(kind, name, content) == [kind |-> kind, name |-> name, content |-> content]
Field(name) == Node("field", name, <<>>)
NoneNode == Node("None", "", <<>>)
Form(content) == Node("Form", "", content)
GroupBoxForm(title, content) == Node("GroupBoxForm", title, content)
HBoxForm(content) == Node("HBoxForm", "", content)
VBoxForm(rows) == Node("VBoxForm", "", rows)
Tab(label, tab_form) == Node("tab", label, <<tab_form>>)
TabForm(tabs) == Node("TabForm", "", tabs)
Row(cells) == Node("row", "", cells)
GridForm(grid) == Node("GridForm", "", grid)

FormKinds == {"Form", "GroupBoxForm", "HBoxForm", "VBoxForm", "TabForm", "GridForm"}

\* issubclass(type(field), AbstractForm)
IsForm(node) == node.kind \in FormKinds

Contains(s, x) == \E k \in 1..Len(s) : s[k] = x

RECURSIVE RemoveFirst(_, _)
\* list.remove(x): the list without its first element equal to x
RemoveFirst(s, x) ==
    IF s = <<>> THEN <<>>
    ELSE IF Head(s) = x THEN Tail(s)
    ELSE <<Head(s)>> \o RemoveFirst(Tail(s), x)

RECURSIVE get_fields_from_form(_)
RECURSIVE AbstractFields(_)
RECURSIVE HBoxFields(_)
RECURSIVE VBoxFields(_)
RECURSIVE TabFields(_)
RECURSIVE GridFields(_)

\* a faulty generator that yields the None placeholders as well
AbstractFieldsKeepNone(content) ==
    IF content = <<>> THEN <<>>
    ELSE LET field == Head(content)
         IN (IF IsForm(field) THEN get_fields_from_form(field) ELSE <<field.name>>)
            \o AbstractFields(Tail(content))

\* AbstractForm._get_fields_from_form over self.content
AbstractFields(content) ==
    IF content = <<>> THEN <<>>
    ELSE LET field == Head(content)
         IN (IF field.kind = "None" THEN <<>>
             ELSE IF IsForm(field) THEN get_fields_from_form(field)
             ELSE <<field.name>>)
            \o AbstractFields(Tail(content))

\* HBoxForm._get_fields_from_form over self.content
HBoxFields(content) ==
    IF content = <<>> THEN <<>>
    ELSE get_fields_from_form(Head(content)) \o HBoxFields(Tail(content))

\* VBoxForm._get_fields_from_form over self.rows
VBoxFields(rows) ==
    IF rows = <<>> THEN <<>>
    ELSE get_fields_from_form(Head(rows)) \o VBoxFields(Tail(rows))

\* TabForm._get_fields_from_form over self.tabs
TabFields(tabs) ==
    IF tabs = <<>> THEN <<>>
    ELSE get_fields_from_form(Head(tabs).content[1]) \o TabFields(Tail(tabs))

\* GridForm._get_fields_from_form over self.grid: the cells of a row are
\* treated as the content of an AbstractForm is
GridFields(grid) ==
    IF grid = <<>> THEN <<>>
    ELSE AbstractFields(Head(grid).content) \o GridFields(Tail(grid))

\* the method the class of the form defines or inherits
get_fields_from_form(f) ==
    CASE f.kind = "HBoxForm" -> HBoxFields(f.content)
      [] f.kind = "VBoxForm" -> VBoxFields(f.content)
      [] f.kind = "TabForm" -> TabFields(f.content)
      [] f.kind = "GridForm" -> GridFields(f.content)
      [] OTHER -> AbstractFields(f.content)

get_fields(f) == get_fields_from_form(f)

RECURSIVE remove_field(_, _)
RECURSIVE AbstractRemoveLoop(_, _, _)
RECURSIVE TabRemoveLoop(_, _, _)

\* the loop of AbstractForm.remove_field from its k-th element on: a sub-form is
\* told to remove the field and its answer is dropped; the element test is on
\* self.content itself
AbstractRemoveLoop(content, k, original_field) ==
    IF k > Len(content) THEN [content |-> content, result |-> FALSE]
    ELSE LET c == content[k]
             visited == IF IsForm(c)
                        THEN [content EXCEPT ![k] = remove_field(c, original_field).form]
                        ELSE content
         IN IF Contains(visited, Field(original_field))
            THEN [content |-> RemoveFirst(visited, Field(original_field)), result |-> TRUE]
            ELSE AbstractRemoveLoop(visited, k + 1, original_field)

AbstractRemove(f, original_field) ==
    LET r == AbstractRemoveLoop(f.content, 1, original_field)
    IN [form |-> [f EXCEPT !.content = r.content], result |-> r.result]

\* the loop of TabForm.remove_field over the tabs from the k-th on
TabRemoveLoop(tabs, k, original_field) ==
    IF k > Len(tabs) THEN [content |-> tabs, result |-> FALSE]
    ELSE LET r == remove_field(tabs[k].content[1], original_field)
             visited == [tabs EXCEPT ![k] = Tab(tabs[k].name, r.form)]
         IN IF r.result
            THEN [content |-> visited, result |-> TRUE]
            ELSE TabRemoveLoop(visited, k + 1, original_field)

\* TabForm.remove_field: the inherited method first, its answer dropped
TabRemove(f, original_field) ==
    LET super == AbstractRemove(f, original_field).form
        r == TabRemoveLoop(super.content, 1, original_field)
    IN [form |-> [super EXCEPT !.content = r.content], result |-> r.result]

\* remove_field of the class of the form: only TabForm overrides it.
\* Gives the form as it is afterwards and the value returned.
remove_field(f, original_field) ==
    IF f.kind = "TabForm"
    THEN TabRemove(f, original_field)
    ELSE AbstractRemove(f, original_field)

RECURSIVE replace_field(_, _, _)
RECURSIVE AbstractReplaceLoop(_, _, _, _)
RECURSIVE TabReplaceLoop(_, _, _, _)
RECURSIVE HBoxReplaceLoop(_, _, _, _)
RECURSIVE VBoxReplaceLoop(_, _, _, _)

\* the loop of AbstractForm.replace_field from its k-th element on
AbstractReplaceLoop(content, k, original_field, new_field) ==
    IF k > Len(content) THEN [content |-> content, result |-> FALSE]
    ELSE LET c == content[k]
         IN IF IsForm(c)
            THEN AbstractReplaceLoop(
                    [content EXCEPT ![k] = replace_field(c, original_field, new_field).form],
                    k + 1, original_field, new_field)
            ELSE IF c = Field(original_field)
            THEN [content |-> [content EXCEPT ![k] = Field(new_field)], result |-> TRUE]
            ELSE AbstractReplaceLoop(content, k + 1, original_field, new_field)

AbstractReplace(f, original_field, new_field) ==
    LET r == AbstractReplaceLoop(f.content, 1, original_field, new_field)
    IN [form |-> [f EXCEPT !.content = r.content], result |-> r.result]

\* the loop of TabForm.replace_field over the tabs from the k-th on
TabReplaceLoop(tabs, k, original_field, new_field) ==
    IF k > Len(tabs) THEN [content |-> tabs, result |-> FALSE]
    ELSE LET r == replace_field(tabs[k].content[1], original_field, new_field)
             visited == [tabs EXCEPT ![k] = Tab(tabs[k].name, r.form)]
         IN IF r.result
            THEN [content |-> visited, result |-> TRUE]
            ELSE TabReplaceLoop(visited, k + 1, original_field, new_field)

\* TabForm.replace_field: the inherited method first, its answer dropped
TabReplace(f, original_field, new_field) ==
    LET super == AbstractReplace(f, original_field, new_field).form
        r == TabReplaceLoop(super.content, 1, original_field, new_field)
    IN [form |-> [super EXCEPT !.content = r.content], result |-> r.result]

\* the loop of HBoxForm.replace_field over self.content from the k-th form on
HBoxReplaceLoop(content, k, original_field, new_field) ==
    IF k > Len(content) THEN [content |-> content, result |-> FALSE]
    ELSE LET r == replace_field(content[k], original_field, new_field)
             visited == [content EXCEPT ![k] = r.form]
         IN IF r.result
            THEN [content |-> visited, result |-> TRUE]
            ELSE HBoxReplaceLoop(visited, k + 1, original_field, new_field)

HBoxReplace(f, original_field, new_field) ==
    LET r == HBoxReplaceLoop(f.content, 1, original_field, new_field)
    IN [form |-> [f EXCEPT !.content = r.content], result |-> r.result]

\* the loop of VBoxForm.replace_field over self.rows from the k-th form on
VBoxReplaceLoop(rows, k, original_field, new_field) ==
    IF k > Len(rows) THEN [content |-> rows, result |-> FALSE]
    ELSE LET r == replace_field(rows[k], original_field, new_field)
             visited == [rows EXCEPT ![k] = r.form]
         IN IF r.result
            THEN [content |-> visited, result |-> TRUE]
            ELSE VBoxReplaceLoop(visited, k + 1, original_field, new_field)

VBoxReplace(f, original_field, new_field) ==
    LET r == VBoxReplaceLoop(f.content, 1, original_field, new_field)
    IN [form |-> [f EXCEPT !.content = r.content], result |-> r.result]

\* replace_field of the class of the form.
\* Gives the form as it is afterwards and the value returned.
replace_field(f, original_field, new_field) ==
    CASE f.kind = "TabForm" -> TabReplace(f, original_field, new_field)
      [] f.kind = "HBoxForm" -> HBoxReplace(f, original_field, new_field)
      [] f.kind = "VBoxForm" -> VBoxReplace(f, original_field, new_field)
      [] OTHER -> AbstractReplace(f, original_field, new_field)

\* the forms the program starts from
FieldNames == {"a", "b"}
NewFieldNames == {"c"}
Leaves == {Field(n) : n \in FieldNames} \cup {NoneNode}

\* the contents of the inner forms: field names, a repeated field name and
\* a placeholder
FieldContents == {<<Field("a")>>, <<Field("b")>>, <<Field("a"), Field("b")>>,
                  <<Field("a"), Field("a")>>}
FlatContents == FieldContents \cup {<<>>, <<NoneNode, Field("b")>>}

\* forms of field names and placeholders only
FlatForms == {Form(c) : c \in FlatContents}
FlatGrids == {GridForm(<<Row(<<Field("a"), Field("b")>>)>>)}

\* forms of field names only, as the columns, rows and tabs of the box forms,
\* and a form within such a form
ColumnForms == {Form(c) : c \in FieldContents} \cup {Form(<<Form(<<Field("a")>>)>>)}

\* the forms a method is called on: every kind of form with at most
\* MaxContent elements, the elements being leaves or inner forms
NestedForms ==
    {Form(c) : c \in SeqsUpTo(Leaves \cup ColumnForms \cup FlatForms \cup FlatGrids,
                               MaxContent)}
    \cup {GroupBoxForm("group", c) : c \in SeqsUpTo(Leaves \cup ColumnForms, MaxContent)}
    \cup {HBoxForm(c) : c \in SeqsUpTo(ColumnForms, MaxContent)}
    \cup {VBoxForm(c) : c \in SeqsUpTo(ColumnForms, MaxContent)}
    \cup {TabForm(c) : c \in SeqsUpTo({Tab("tab", f) : f \in ColumnForms}, MaxContent)}
    \cup {GridForm(c) : c \in SeqsUpTo({Row(c2) : c2 \in FlatContents}
                                        \cup {Row(<<f>>) : f \in ColumnForms}, MaxContent)}

NoCall == [op |-> "none", original_field |-> "", new_field |-> "", before |-> Form(<<>>),
           result |-> FALSE, fields |-> <<>>]

FormsAtRest ==
    /\ form = Form(<<>>)
    /\ call = NoCall

\* form.remove_field(original_field)
RemoveField(original_field) ==
    /\ LET r == remove_field(form, original_field)
       IN /\ form' = r.form
          /\ call' = [op |-> "remove_field", original_field |-> original_field,
                      new_field |-> "", before |-> form, result |-> r.result,
                      fields |-> <<>>]
    /\ UNCHANGED notForms

\* form.replace_field(original_field, new_field)
ReplaceField(original_field, new_field) ==
    /\ LET r == replace_field(form, original_field, new_field)
       IN /\ form' = r.form
          /\ call' = [op |-> "replace_field", original_field |-> original_field,
                      new_field |-> new_field, before |-> form, result |-> r.result,
                      fields |-> <<>>]
    /\ UNCHANGED notForms

\* form.get_fields()
GetFields ==
    /\ call' = [op |-> "get_fields", original_field |-> "", new_field |-> "",
                before |-> form, result |-> FALSE, fields |-> get_fields(form)]
    /\ UNCHANGED form
    /\ UNCHANGED notForms

\* A python object as structure_to_form sees it: its identity, what it holds,
\* and the scrollbars and columns attributes of a form.
Ref(id, node, scrollbars, columns) ==
    [id |-> id, node |-> node, scrollbars |-> scrollbars, columns |-> columns]

\* a python list of field names and placeholders
List(content) == Node("list", "", content)
ListRef(id, content) == Ref(id, List(content), FALSE, 0)
Lists == {List(c) : c \in FlatContents}

\* lines 278-283: Form(content), scrollbars and columns at their defaults
DefaultScrollbars == FALSE
DefaultColumns == 1
NewForm(id, content) == Ref(id, Form(content), DefaultScrollbars, DefaultColumns)

\* a faulty conversion that wraps whatever it is given
structure_to_form_wrapping(structure, id) == NewForm(id, structure.node.content)

\* lines 793-804. id: the identity of the form made at line 804
structure_to_form(structure, id) ==
    IF IsForm(structure.node) THEN structure
    ELSE NewForm(id, structure.node.content)

\* the identities of the object the program holds, of a list it converts and
\* of the forms made by the two conversions of one call
ObjectIds == [held |-> "held", list |-> "list", first |-> "first", second |-> "second"]

\* f = structure_to_form(structure), then structure_to_form(f) and
\* f.get_fields(); the program goes on with f
StructureToForm(structure) ==
    /\ LET f == structure_to_form(structure, ObjectIds.first)
           again == structure_to_form(f, ObjectIds.second)
       IN /\ call' = [op |-> "structure_to_form", original_field |-> "", new_field |-> "",
                      before |-> Form(<<>>), result |-> FALSE,
                      fields |-> get_fields(f.node), structure |-> structure, returned |-> f, again |-> again]
          /\ form' = f.node
    /\ UNCHANGED notForms

\* ------------------------------------------------------------ TabForm tabs
\* what structure_to_form makes of a tab form, leaving identities aside
TabFormOf(tab_form) == structure_to_form(Ref("", tab_form, FALSE, 0), "").node

\* a faulty insert that ignores the index
ListInsertAtEnd(s, index, x) == Append(s, x)

\* list.insert(index, x): a negative index counts from the end, an index
\* beyond either end is the end
ListInsert(s, index, x) ==
    LET n == Len(s)
        k == IF index < 0 THEN (IF index + n < 0 THEN 0 ELSE index + n)
             ELSE (IF index > n THEN n ELSE index)
    IN SubSeq(s, 1, k) \o <<x>> \o SubSeq(s, k + 1, n)

\* lines 413-418: TabForm(tabs), tabs a list of (tab_label, tab_form) tuples
TabFormInit(tabs) ==
    TabForm([k \in 1..Len(tabs) |-> Tab(tabs[k][1], TabFormOf(tabs[k][2]))])

\* lines 429-437
add_tab_at_index(f, tab_label, tab_form, index) ==
    [f EXCEPT !.content = ListInsert(f.content, index, Tab(tab_label, TabFormOf(tab_form)))]

\* lines 439-446
add_tab(f, tab_label, tab_form) ==
    [f EXCEPT !.content = Append(f.content, Tab(tab_label, TabFormOf(tab_form)))]

RECURSIVE GetTabLoop(_, _)
\* lines 455-457: the loop over the tabs with its early return; None at the end
GetTabLoop(tabs, tab_label) ==
    IF tabs = <<>> THEN NoneNode
    ELSE IF Head(tabs).name = tab_label THEN Head(tabs).content[1]
    ELSE GetTabLoop(Tail(tabs), tab_label)

\* lines 448-457
get_tab(f, tab_label) == GetTabLoop(f.content, tab_label)

TabLabels == {"First tab", "Second tab"}
TabStructures == {List(<<Field("a")>>), List(<<NoneNode, Field("b")>>),
                  Form(<<Field("b")>>)}
TabTuples == {<<l, t>> : l \in TabLabels, t \in TabStructures}
TabIndexes == (0 - MaxTabs - 1)..(MaxTabs + 1)

TabCall(op, tab_label, tab_form, index, returned) ==
    [op |-> op, tab_label |-> tab_label, tab_form |-> tab_form, index |-> index,
     before |-> form, returned |-> returned]

AddTab(tab_label, tab_form) ==
    /\ form.kind = "TabForm"
    /\ Len(form.content) < MaxTabs
    /\ form' = add_tab(form, tab_label, tab_form)
    /\ call' = TabCall("add_tab", tab_label, tab_form, 0, NoneNode)
    /\ UNCHANGED notForms

AddTabAtIndex(tab_label, tab_form, index) ==
    /\ form.kind = "TabForm"
    /\ Len(form.content) < MaxTabs
    /\ form' = add_tab_at_index(form, tab_label, tab_form, index)
    /\ call' = TabCall("add_tab_at_index", tab_label, tab_form, index, NoneNode)
    /\ UNCHANGED notForms

GetTab(tab_label) ==
    /\ form.kind = "TabForm"
    /\ call' = TabCall("get_tab", tab_label, NoneNode, 0, get_tab(form, tab_label))
    /\ UNCHANGED form
    /\ UNCHANGED notForms

\* -------------------------------------------------------------- prospection
Columns == {"c1"}
TransitionTypes == {"t1", "t2"}
Funcs == {"f1", "f2"}

\* An attribute: a schema Column, an InstrumentedAttribute of a column
\* property, or an InstrumentedAttribute of another property (a relationship).
AttributeKinds == {"Column", "InstrumentedColumn", "InstrumentedRelationship"}
Attributes == [kind : AttributeKinds, column : Columns]

is_supported_attribute(attribute) ==
    \/ attribute.kind = "Column"
    \/ /\ attribute.kind \in {"InstrumentedColumn", "InstrumentedRelationship"}
       /\ attribute.kind = "InstrumentedColumn"

\* The keys of a dictionary and the values looked up in it: None, a string, or
\* a transition type object (which has a name and is not a string).
NoneKey == <<"None", "">>
StrKey(name) == <<"str", name>>
TypeKey(transition_type) == <<"type", transition_type>>
TransitionTypeName(transition_type) == StrKey(transition_type)

RegistryKeys == {NoneKey} \cup {StrKey(t) : t \in TransitionTypes}
LookupKeys == RegistryKeys \cup {TypeKey(t) : t \in TransitionTypes}

\* An instance of a class made by prospected_attribute; NoProspection is None.
Prospection(func, for_transition_types) ==
    [func |-> func, for_transition_types |-> for_transition_types]
NoProspection == Prospection("None", <<>>)

\* the tuples of transition types a prospection is registered for
TypeTuples ==
    {t \in SeqsUpTo(TransitionTypes, Cardinality(TransitionTypes)) :
        \A j, k \in 1..Len(t) : j # k => t[j] # t[k]}

\* dict.get(key, default)
DictGet(dict, key, default) ==
    IF key \in DOMAIN dict /\ dict[key] # NoProspection THEN dict[key] ELSE default

\* column.info of a column nothing was registered on
EmptyInfo == [has |-> FALSE, prospection |-> [k \in RegistryKeys |-> NoProspection]]

RECURSIVE RegisterTypes(_, _, _)
\* lines 30-31: one entry per transition type, under the name of the type
RegisterTypes(prospection, for_transition_types, self) ==
    IF for_transition_types = <<>> THEN prospection
    ELSE RegisterTypes(
            [prospection EXCEPT ![TransitionTypeName(Head(for_transition_types))] = self],
            Tail(for_transition_types), self)

\* abstract_attribute_prospection.register on the info of the column
register(column_info, self) ==
    [has |-> TRUE,
     prospection |->
        IF self.for_transition_types # <<>>
        THEN RegisterTypes(column_info.prospection, self.for_transition_types, self)
        ELSE [column_info.prospection EXCEPT ![NoneKey] = self]]

\* The targets: None, or an instance of an entity class. The class of "entity"
\* has every transition type configured, that of "partial" only t1, that of
\* "plain" has transition_types None. type(None) has no such attribute.
Targets == {"None", "entity", "partial", "plain"}
Dates == {"None", "date"}
Defaults == {"None", "default"}

HasTransitionTypesAttribute(target) == target # "None"
ClassTransitionTypes(target) ==
    CASE target = "entity" -> [configured |-> TRUE, types |-> TransitionTypes]
      [] target = "partial" -> [configured |-> TRUE, types |-> {"t1"}]
      [] OTHER -> [configured |-> FALSE, types |-> {}]

\* what the user function returns for defined arguments
FuncResult(func) == <<"result of", func>>
NoneValue == <<"None", "">>
DefaultValue(default) == IF default = "None" THEN NoneValue ELSE <<"default", default>>

Outcome(raised, value, invoked) == [raised |-> raised, value |-> value, invoked |-> invoked]

\* abstract_attribute_prospection.__call__ (lines 35-43)
prospection_call(self, target, at) ==
    IF self.for_transition_types # <<>> /\ ~HasTransitionTypesAttribute(target)
    THEN Outcome("AttributeError", NoneValue, "None")
    ELSE IF /\ self.for_transition_types # <<>>
            /\ \/ ~ClassTransitionTypes(target).configured
               \/ \E k \in 1..Len(self.for_transition_types) :
                     self.for_transition_types[k] \notin ClassTransitionTypes(target).types
    THEN Outcome("AssertionError", NoneValue, "None")
    ELSE IF target # "None" /\ at # "None"
    THEN Outcome("None", FuncResult(self.func), self.func)
    ELSE Outcome("None", NoneValue, "None")

\* get_prospected_value (lines 89-96); attribute.prop exists on an
\* InstrumentedAttribute only
get_prospected_value(column_info, attribute, target, at, transition_type, default) ==
    IF is_supported_attribute(attribute)
    THEN IF attribute.kind = "Column"
         THEN Outcome("AttributeError", NoneValue, "None")
         ELSE LET column == column_info[attribute.column]
                  attribute_prospection ==
                      DictGet(column.prospection, transition_type,
                              DictGet(column.prospection, NoneKey, NoProspection))
              IN IF column.has /\ attribute_prospection # NoProspection
                 THEN prospection_call(attribute_prospection, target, at)
                 ELSE Outcome("None", DefaultValue(default), "None")
    ELSE Outcome("None", DefaultValue(default), "None")

NoLast == [op |-> "none", attribute |-> [kind |-> "Column", column |-> "c1"],
           self |-> NoProspection, target |-> "None", at |-> "None",
           transition_type |-> NoneKey, default |-> "None",
           outcome |-> Outcome("None", NoneValue, "None")]

ProspectionAtRest ==
    /\ info = [c \in Columns |-> EmptyInfo]
    /\ registrations = 0
    /\ last = NoLast

\* @prospected_attribute(column_attribute, *transition_types) on a function:
\* the class is made (line 70 holds) and its instance registers itself
Register(attribute, transition_types, func) ==
    /\ registrations < MaxRegistrations
    /\ is_supported_attribute(attribute)
    /\ info' = [info EXCEPT ![attribute.column] =
                    register(info[attribute.column], Prospection(func, transition_types))]
    /\ registrations' = registrations + 1
    /\ UNCHANGED last
    /\ UNCHANGED notProspection

\* a registered prospection is called with a target and a date
CallProspection(column, key, target, at) ==
    /\ info[column].prospection[key] # NoProspection
    /\ last' = [NoLast EXCEPT !.op = "call",
                              !.self = info[column].prospection[key],
                              !.target = target, !.at = at,
                              !.outcome = prospection_call(info[column].prospection[key],
                                                           target, at)]
    /\ UNCHANGED <<info, registrations>>
    /\ UNCHANGED notProspection

\* get_prospected_value(attribute, target, at, transition_type, default)
GetProspectedValue(attribute, target, at, transition_type, default) ==
    /\ last' = [NoLast EXCEPT !.op = "get_prospected_value",
                              !.attribute = attribute,
                              !.target = target, !.at = at,
                              !.transition_type = transition_type,
                              !.default = default,
                              !.outcome = get_prospected_value(info, attribute, target, at,
                                                               transition_type, default)]
    /\ UNCHANGED <<info, registrations>>
    /\ UNCHANGED notProspection

\* ------------------------------------------ structure_to_application_action
\* An object of the program, as far as the conversion looks at it: its class,
\* its identity, the entity it stands for, the class of the admin it holds.
Object(cls, id, entity, entity_admin) ==
    [cls |-> cls, id |-> id, entity |-> entity, entity_admin |-> entity_admin]
NoObject == Object("None", 0, "", "")

\* the subclasses of Action of application_action.py
ActionClasses == {"UpdateActions", "EntityAction", "OpenTableView", "Backup", "Refresh",
                  "Restore", "Profiler", "Exit", "SegmentationFault"}
Entities == {"Person", "Movie"}

\* line 285: the actions bound when the module is loaded, passed on as they are
BoundActions == {Object("Exit", 1, "", ""), Object("Refresh", 2, "", "")}
EntityClasses == {Object("type", 0, e, "") : e \in Entities}

\* line 312: isinstance(structure, Action)
IsAction(structure) == structure.cls \in ActionClasses

\* line 314: the related admin of an entity class, and line 315: its query
get_related_admin(structure) == Object("EntityAdmin", 0, structure.entity, "")
get_query(admin) == Object("Query", 0, admin.entity, "")

\* lines 101-102: the parameters of EntityAction.__init__ after self.
\* OpenTableView (lines 112-135) defines no __init__ and inherits this one.
EntityActionParameters == <<"entity_admin">>

ReturnValue(value) == [raised |-> "None", value |-> value]
Raise(exception) == [raised |-> exception, value |-> NoObject]

\* cls(*args) for a subclass of EntityAction: the arguments are bound to the
\* parameters of __init__ (TypeError when there are too many or too few),
\* then lines 108-110 run. id: the identity of the new object.
ConstructEntityAction(cls, args, id) ==
    IF Len(args) # Len(EntityActionParameters) THEN Raise("TypeError")
    ELSE IF args[1].cls # "EntityAdmin" THEN Raise("AssertionError")
    ELSE ReturnValue(Object(cls, id, args[1].entity, args[1].cls))

\* lines 305-315
structure_to_application_action(structure, id) ==
    IF IsAction(structure) THEN ReturnValue(structure)
    ELSE LET admin == get_related_admin(structure)
         IN ConstructEntityAction("OpenTableView", <<get_query(admin), admin>>, id)

StructureAtRest ==
    /\ conversions = <<>>
    /\ allocated = Cardinality(BoundActions)

\* the actions made so far by the calls
MadeActions == {conversions[k].outcome.value : k \in 1..Len(conversions)} \ {NoObject}

Converted(op, structure, result) ==
    /\ conversions' = Append(conversions, [op |-> op, structure |-> structure,
                                           outcome |-> result])
    /\ allocated' = IF result.raised = "None" /\ result.value.id > allocated
                    THEN allocated + 1 ELSE allocated
    /\ UNCHANGED notStructure

\* a menu definition is converted: structure_to_application_action(structure, admin)
StructureToApplicationAction(structure) ==
    /\ Len(conversions) < MaxConversions
    /\ Converted("structure_to_application_action", structure,
                 structure_to_application_action(structure, allocated + 1))

\* the application makes the action itself: OpenTableView(admin)
MakeOpenTableView(entity) ==
    /\ Len(conversions) < MaxConversions
    /\ Converted("OpenTableView", entity,
                 ConstructEntityAction("OpenTableView", <<get_related_admin(entity)>>,
                                       allocated + 1))

\* ----------------------------------------------------------- specifications
InitRefresh ==
    /\ identity_map \in Sessions
    /\ RefreshAtRest
    /\ RunnerAtRest /\ BackupAtRest /\ ProfilerAtRest
    /\ StructureAtRest
    /\ FormsAtRest
    /\ ProspectionAtRest

NextRefresh ==
    \/ RefreshStart
    \/ RefreshIterate
    \/ RefreshYieldView
    \/ RefreshYieldUpdate
    \/ RefreshYieldDelete
    \/ RefreshYieldRefresh
    \/ RefreshYieldFinal
    \/ RefreshReturn

SpecRefresh == InitRefresh /\ [][NextRefresh]_vars

Init ==
    /\ identity_map = <<>>
    /\ RefreshAtRest
    /\ RunnerAtRest /\ BackupAtRest /\ ProfilerAtRest
    /\ StructureAtRest
    /\ FormsAtRest
    /\ ProspectionAtRest

Next ==
    \/ \E a \in Actions : StartAction(a)
    \/ RequestCancel
    \/ Poll
    \/ Dispatch
    \/ Deliver
    \/ BackupYieldSaveFile
    \/ BackupYieldInProgress
    \/ BackupCreate
    \/ BackupNext
    \/ ProfilerFirstStep
    \/ ProfilerYieldStart
    \/ ProfilerEnable
    \/ ProfilerDisable
    \/ ProfilerReturn

Spec == Init /\ [][Next]_vars

InitForms ==
    /\ form \in NestedForms
    /\ call = NoCall
    /\ identity_map = <<>>
    /\ RefreshAtRest
    /\ RunnerAtRest /\ BackupAtRest /\ ProfilerAtRest
    /\ StructureAtRest
    /\ ProspectionAtRest

NextForms ==
    \/ \E f \in FieldNames : RemoveField(f)
    \/ \E f \in FieldNames : \E n \in (NewFieldNames \cup FieldNames) \ {f} :
            ReplaceField(f, n)
    \/ GetFields
    \/ StructureToForm(Ref(ObjectIds.held, form, ~DefaultScrollbars, DefaultColumns + 1))
    \/ \E l \in Lists : StructureToForm(ListRef(ObjectIds.list, l.content))

SpecForms == InitForms /\ [][NextForms]_vars

InitTabs ==
    /\ form \in {TabFormInit(tabs) : tabs \in SeqsUpTo(TabTuples, MaxContent)}
    /\ call = NoCall
    /\ identity_map = <<>>
    /\ RefreshAtRest
    /\ RunnerAtRest /\ BackupAtRest /\ ProfilerAtRest
    /\ StructureAtRest
    /\ ProspectionAtRest

NextTabs ==
    \/ \E tab \in TabTuples : AddTab(tab[1], tab[2])
    \/ \E tab \in TabTuples, index \in TabIndexes : AddTabAtIndex(tab[1], tab[2], index)
    \/ \E tab_label \in TabLabels \cup {"Third tab"} : GetTab(tab_label)

SpecTabs == InitTabs /\ [][NextTabs]_vars

InitProspection ==
    /\ ProspectionAtRest
    /\ identity_map = <<>>
    /\ RefreshAtRest
    /\ RunnerAtRest /\ BackupAtRest /\ ProfilerAtRest
    /\ StructureAtRest
    /\ FormsAtRest

NextProspection ==
    \/ \E attribute \in Attributes, transition_types \in TypeTuples, func \in Funcs :
            Register(attribute, transition_types, func)
    \/ \E column \in Columns, key \in RegistryKeys, target \in Targets, at \in Dates :
            CallProspection(column, key, target, at)
    \/ \E attribute \in Attributes, target \in Targets, at \in Dates,
          transition_type \in LookupKeys, default \in Defaults :
            GetProspectedValue(attribute, target, at, transition_type, default)

SpecProspection == InitProspection /\ [][NextProspection]_vars

InitStructure ==
    /\ StructureAtRest
    /\ identity_map = <<>>
    /\ RefreshAtRest
    /\ RunnerAtRest /\ BackupAtRest /\ ProfilerAtRest
    /\ FormsAtRest
    /\ ProspectionAtRest

NextStructure ==
    \/ \E structure \in BoundActions \cup EntityClasses \cup MadeActions :
            StructureToApplicationAction(structure)
    \/ \E entity \in EntityClasses : MakeOpenTableView(entity)

SpecStructure == InitStructure /\ [][NextStructure]_vars

\* ------------------------------------------------------------------ properties
Count(s, x) == Cardinality({k \in 1..Len(s) : s[k] = x})

StepsNamed(name) == SelectSeq(steps, LAMBDA st : st.name = name)

IsPrefix(s, t) == Len(s) <= Len(t) /\ \A k \in 1..Len(s) : s[k] = t[k]

\* C1: no InvalidRequestError leaves Refresh.model_run, and when the run is
\* over every object that was in the identity map at its start is exactly once
\* in exactly one of the lists of the UpdateObjects and DeleteObjects steps:
\* in UpdateObjects (and still in the session) iff its refresh succeeded, in
\* DeleteObjects (and expunged from the session) iff its refresh raised.
C1_RefreshPartition ==
    /\ escaped = "none"
    /\ rpc # "raised"
    /\ rpc = "done" =>
        /\ Len(StepsNamed("UpdateObjects")) = 1
        /\ Len(StepsNamed("DeleteObjects")) = 1
        /\ LET updated == StepsNamed("UpdateObjects")[1].objects
               deleted == StepsNamed("DeleteObjects")[1].objects
           IN /\ Range(updated) \cup Range(deleted) = Range(items)
              /\ \A o \in Range(items) :
                    /\ Count(updated, o) + Count(deleted, o) = 1
                    /\ outcome[o] = "refreshed" <=> Count(updated, o) = 1
                    /\ outcome[o] = "InvalidRequestError" <=> Count(deleted, o) = 1
                    /\ Count(updated, o) = 1 <=> o \in Range(identity_map)

\* a complete run in which some objects were refreshed and some were stale
C1_Witness ==
    /\ rpc = "done"
    /\ refreshed_objects # <<>>
    /\ expunged_objects # <<>>
    /\ Len(items) > ProgressInterval

\* C2: during Backup the steps reach the GUI one at a time in the order they
\* are yielded and the generator runs only when every yielded step has its GUI
\* result; no backup mechanism exists and no progress step is yielded before
\* SaveFile has returned the destination; after SaveFile and the 'Backup in
\* progress' step there is exactly one UpdateProgress per tuple of the backup
\* iterator, in iterator order.
C2_BackupStepOrder ==
    action = "Backup" =>
        /\ IsPrefix(dispatched, yielded)
        /\ Len(yielded) <= Len(dispatched) + 1
        /\ Len(delivered) <= Len(dispatched)
        /\ runner = "model" => Len(delivered) = Len(yielded)
        /\ (backup_mechanism.created \/ Len(yielded) >= 2) =>
              /\ dispatched # <<>> /\ dispatched[1].name = "SaveFile"
              /\ delivered # <<>> /\ delivered[1] \in Destinations
              /\ destination = delivered[1]
        /\ backup_mechanism.created => backup_mechanism.destination = delivered[1]
        /\ ~backup_mechanism.created => Len(yielded) <= 2
        /\ Len(yielded) >= 1 => yielded[1].name = "SaveFile"
        /\ Len(yielded) >= 2 =>
              yielded[2].name = "UpdateProgress" /\ yielded[2].text = "Backup in progress"
        /\ Len(yielded) <= 2 + Len(backup_tuples)
        /\ \A k \in 3..Len(yielded) :
              /\ yielded[k].name = "UpdateProgress"
              /\ yielded[k].value = backup_tuples[k - 2][1]
              /\ yielded[k].maximum = backup_tuples[k - 2][2]
              /\ yielded[k].text = backup_tuples[k - 2][3]
        /\ pc = "done" => Len(yielded) = 2 + Len(backup_tuples)

\* a complete backup that reported two different tuples
C2_Witness ==
    /\ action = "Backup"
    /\ pc = "done"
    /\ Len(backup_tuples) >= 2
    /\ backup_tuples[1] # backup_tuples[2]
    /\ Len(dispatched) = 2 + Len(backup_tuples)

C10_ProfilerAlternates ==
    (\A k \in 1..Len(profiler_log) : profiler_log[k] # "cancelled") =>
        /\ \A k \in 1..Len(profiler_log) :
              profiler_log[k] = IF k % 2 = 1 THEN "start" ELSE "stop"

RECURSIVE ConcatAll(_)
ConcatAll(seqs) == IF seqs = <<>> THEN <<>> ELSE Head(seqs) \o ConcatAll(Tail(seqs))

RECURSIVE DocumentOrder(_)
\* the field names of a tree in document order: depth first, left to right,
\* every occurrence kept, the None placeholders left out
DocumentOrder(node) ==
    IF node.kind = "field" THEN <<node.name>>
    ELSE IF node.kind = "None" THEN <<>>
    ELSE ConcatAll([k \in 1..Len(node.content) |-> DocumentOrder(node.content[k])])

RECURSIVE HasKind(_, _)
\* a node of that kind is in the tree
HasKind(node, kind) ==
    \/ node.kind = kind
    \/ \E k \in 1..Len(node.content) : HasKind(node.content[k], kind)

\* C4: on a form built of Form, GroupBoxForm, HBoxForm, VBoxForm and TabForm,
\* remove_field(f) returns True exactly when f was among the fields of the
\* form before the call, and after a True result the fields of the form hold
\* one occurrence of f less.
C4_RemoveFieldResult ==
    (call.op = "remove_field" /\ ~HasKind(call.before, "GridForm")) =>
        /\ call.result <=> Contains(DocumentOrder(call.before), call.original_field)
        /\ call.result =>
              Count(get_fields(form), call.original_field)
                = Count(get_fields(call.before), call.original_field) - 1

\* C5: on a form built of Form, GroupBoxForm, HBoxForm, VBoxForm and TabForm,
\* replace_field(old, new) returns True exactly when old was among the fields
\* of the form before the call, and after a True result the fields are those
\* of before with new at one position where old was.
C5_ReplaceFieldResult ==
    (call.op = "replace_field" /\ ~HasKind(call.before, "GridForm")) =>
        /\ call.result <=> Contains(DocumentOrder(call.before), call.original_field)
        /\ call.result =>
              LET before == get_fields(call.before)
              IN \E p \in 1..Len(before) :
                    /\ before[p] = call.original_field
                    /\ get_fields(form) = [before EXCEPT ![p] = call.new_field]

\* C6: get_fields() returns the field names of the form tree in document
\* order: depth first and left to right through forms, tabs, columns, rows and
\* cells, every occurrence kept and no None placeholder among them.
C6_GetFieldsDocumentOrder ==
    call.op = "get_fields" =>
        /\ call.fields = DocumentOrder(form)
        /\ ~Contains(call.fields, "")

\* get_fields on a form that starts with a placeholder and holds a sub-form
C6_Witness ==
    /\ call.op = "get_fields"
    /\ Len(form.content) = 2
    /\ form.content[1] = NoneNode
    /\ IsForm(form.content[2])
    /\ Len(call.fields) = 2
    /\ call.fields[1] # call.fields[2]

\* C7: a prospection, registered with or without transition types, that is
\* called with target None or with prospection date None gives None: it does
\* not raise and it does not invoke the user function.
C7_UndefinedYieldsNone ==
    (last.op = "call" /\ (last.target = "None" \/ last.at = "None")) =>
        /\ last.outcome.raised = "None"
        /\ last.outcome.value = NoneValue
        /\ last.outcome.invoked = "None"

\* the column of the attribute has a prospection under that key
Registered(attribute, key) ==
    /\ info[attribute.column].has
    /\ key \in RegistryKeys
    /\ info[attribute.column].prospection[key] # NoProspection

\* C8: get_prospected_value returns the given default and does not raise when
\* the attribute has no applicable prospection: it is not a supported column
\* attribute, or nothing is registered for the requested transition type nor
\* without transition type; a plain schema Column included.
C8_DefaultWithoutProspection ==
    (/\ last.op = "get_prospected_value"
     /\ \/ ~is_supported_attribute(last.attribute)
        \/ /\ ~Registered(last.attribute, last.transition_type)
           /\ ~Registered(last.attribute, NoneKey)) =>
        /\ last.outcome.raised = "None"
        /\ last.outcome.value = DefaultValue(last.default)
        /\ last.outcome.invoked = "None"

\* C9: on a mapped column attribute, for a target and a date that are defined
\* and a target class that has every transition type configured,
\* get_prospected_value with transition type T invokes the function registered
\* for T when there is one, and the function registered without transition
\* types when there is none for T.
C9_RegisterLookupRoundTrip ==
    \A t \in TransitionTypes :
        (/\ last.op = "get_prospected_value"
         /\ last.attribute.kind = "InstrumentedColumn"
         /\ last.target = "entity"
         /\ last.at = "date"
         /\ last.transition_type = TypeKey(t)) =>
            LET column == info[last.attribute.column]
                typed == column.prospection[TransitionTypeName(t)]
                untyped == column.prospection[NoneKey]
            IN /\ typed # NoProspection =>
                    /\ last.outcome.invoked = typed.func
                    /\ last.outcome.value = FuncResult(typed.func)
               /\ (typed = NoProspection /\ untyped # NoProspection) =>
                    /\ last.outcome.invoked = untyped.func
                    /\ last.outcome.value = FuncResult(untyped.func)

\* C11: structure_to_application_action gives back an Action it is handed, the
\* same object, and for any other structure constructs and returns, without
\* error, an OpenTableView action of the related admin of the structure.
C11_StructureToApplicationAction ==
    \A k \in 1..Len(conversions) :
        LET c == conversions[k]
        IN c.op = "structure_to_application_action" =>
            /\ c.outcome.raised = "None"
            /\ IF IsAction(c.structure)
               THEN c.outcome.value = c.structure
               ELSE /\ c.outcome.value.cls = "OpenTableView"
                    /\ c.outcome.value.entity = c.structure.entity
                    /\ c.outcome.value.entity_admin = "EntityAdmin"

RECURSIVE NonNoneNames(_)
\* the names of a list of field names and placeholders, the placeholders left out
NonNoneNames(content) ==
    IF content = <<>> THEN <<>>
    ELSE IF Head(content).kind = "None" THEN NonNoneNames(Tail(content))
    ELSE <<Head(content).name>> \o NonNoneNames(Tail(content))

\* C12: structure_to_form returns the very object it is given when that is a
\* form of any class; otherwise it returns a new Form with the structure as
\* content, 1 column and no scrollbars, whose get_fields() are the non-None
\* names of the list; converting the result again returns the same object.
C12_StructureToForm ==
    call.op = "structure_to_form" =>
        /\ IF IsForm(call.structure.node)
           THEN call.returned = call.structure
           ELSE /\ call.returned.id # call.structure.id
                /\ call.returned.node = Form(call.structure.node.content)
                /\ call.returned.columns = 1
                /\ call.returned.scrollbars = FALSE
                /\ call.fields = NonNoneNames(call.structure.node.content)
        /\ call.again = call.returned

\* a list with a placeholder and a name was wrapped and the form made of it
\* was converted again
C12_Witness ==
    /\ call.op = "structure_to_form"
    /\ call.structure.node.kind = "list"
    /\ Contains(call.structure.node.content, NoneNode)
    /\ Len(call.fields) = 1
    /\ call.returned.id = ObjectIds.first
    /\ call.again.id = ObjectIds.first

\* s with its p-th element left out
Omit(s, p) == SubSeq(s, 1, p - 1) \o SubSeq(s, p + 1, Len(s))

\* where list.insert(index, x) puts x in a list of n elements, counted from 1
InsertPosition(n, index) ==
    IF index >= 0 THEN (IF index <= n THEN index + 1 ELSE n + 1)
    ELSE (IF n + index >= 0 THEN n + index + 1 ELSE 1)

\* C13: for a TabForm, add_tab appends and add_tab_at_index inserts at the
\* index the tab (label, structure_to_form(tab_form)), the tabs there were
\* keeping their order; every stored tab form is a form; get_tab(label) gives
\* the form of the first tab with that label, None when there is none.
C13_TabFormTabs ==
    form.kind = "TabForm" =>
        /\ \A k \in 1..Len(form.content) :
              /\ form.content[k].kind = "tab"
              /\ IsForm(form.content[k].content[1])
        /\ call.op \in {"add_tab", "add_tab_at_index"} =>
              LET n == Len(call.before.content)
                  p == IF call.op = "add_tab" THEN n + 1
                       ELSE InsertPosition(n, call.index)
                  stored == IF IsForm(call.tab_form) THEN call.tab_form
                            ELSE Form(call.tab_form.content)
              IN /\ Len(form.content) = n + 1
                 /\ form.content[p].name = call.tab_label
                 /\ form.content[p].content = <<stored>>
                 /\ Omit(form.content, p) = call.before.content
        /\ call.op = "get_tab" =>
              LET matches == {k \in 1..Len(form.content) :
                                 form.content[k].name = call.tab_label}
              IN IF matches = {} THEN call.returned = NoneNode
                 ELSE \E k \in matches :
                        /\ \A j \in matches : k <= j
                        /\ call.returned = form.content[k].content[1]

\* a tab made of a list was inserted between two tabs, one of which has the
\* same label and another form
C13_Witness ==
    /\ call.op = "add_tab_at_index"
    /\ call.tab_form.kind = "list"
    /\ call.index > 0 /\ call.index < Len(call.before.content)
    /\ \E k \in 1..Len(call.before.content) :
          /\ call.before.content[k].name = call.tab_label
          /\ call.before.content[k].content # <<Form(call.tab_form.content)>>
    /\ get_tab(form, call.tab_label) # Form(call.tab_form.content)

\* a step UpdateProgress(value, maximum, text)
IsProgress(st, value, maximum, text) ==
    /\ st.name = "UpdateProgress"
    /\ st.value = value /\ st.maximum = maximum /\ st.text = text

\* the positions of the steps of the run that say 'Update screens'
ViewSteps == {k \in 1..Len(steps) : steps[k].text = "Update screens"}

\* C14: every complete run of Refresh.model_run, whatever the identity map
\* holds, ends with UpdateProgress('Update screens'), UpdateObjects(refreshed),
\* DeleteObjects(expunged), Refresh(), UpdateProgress(1, 1) in this order, the
\* last being the last step of the run; the steps before them are the database
\* progress steps and none of those is yielded after the first of the five.
C14_RefreshClosingSteps ==
    /\ \A k \in 1..Len(steps) :
          (\E v \in ViewSteps : v < k) => steps[k].text # "Reload data from database"
    /\ \A k \in 1..Len(steps) :
          (\A v \in ViewSteps : k < v) =>
              IsProgress(steps[k], steps[k].value, session_items, "Reload data from database")
    /\ rpc \in {"L210", "done"} =>
          LET n == Len(steps)
          IN /\ n >= 5
             /\ IsProgress(steps[n - 4], NoValue, NoValue, "Update screens")
             /\ steps[n - 3].name = "UpdateObjects"
             /\ steps[n - 3].objects = refreshed_objects
             /\ steps[n - 2].name = "DeleteObjects"
             /\ steps[n - 2].objects = expunged_objects
             /\ steps[n - 1].name = "Refresh"
             /\ IsProgress(steps[n], 1, 1, "")
             /\ ViewSteps = {n - 4}
             /\ \A k \in 1..(n - 5) : steps[k].text = "Reload data from database"

\* a complete run over a session large enough for two database progress steps,
\* with refreshed and expunged objects
C14_Witness ==
    /\ rpc = "done"
    /\ Len(steps) = 7
    /\ refreshed_objects # <<>>
    /\ expunged_objects # <<>>

====
